---------------------------- MODULE Spec2Model ----------------------------
(***************************************************************************)
(* A model of src/rendering/rendering.ts of the typewriter editor: the     *)
(* line grouper (combineLines and its identity caches), the range diff     *)
(* (getChangedRanges, isSame), the reconciler (render, renderChanges,      *)
(* setLineNodesRanges) and the inline composer (renderInline).             *)
(*                                                                         *)
(* Four specifications share the module:                                   *)
(*   SpecGroup   combineLines called on Line-sequence objects              *)
(*   SpecDiff    getChangedRanges applied to pairs of unit sequences       *)
(*   Spec        the editor: render / renderChanges, step by step          *)
(*   SpecInline  renderInline, one operation of the content run per step   *)
(***************************************************************************)
EXTENDS Integers, Sequences, FiniteSets, TLC

VARIABLES
    \* ---- line grouper (module-level WeakMaps and the objects they hold)
    pool,            \* the Line objects that exist: id -> Line
    arrays,          \* the Line-sequence objects (doc.lines), by identity
    linesCombined,   \* WeakMap<Line[], CombinedData>: array identity -> result identity
    linesMultiples,  \* WeakMap<Line, Line[]>: Line -> group object identity
    groups,          \* heap of group arrays: identity -> member Lines
    results,         \* heap of CombinedData objects: identity -> {combined, byKey}
    gcall,           \* the last combineLines call: argument, returned object, caches before
    firstRet,        \* array identity -> the result object its first call returned
    \* ---- range diff
    oldC, newC,      \* the two unit sequences handed to getChangedRanges
    ranges,          \* what it returned
    dpc,
    \* ---- reconciler
    doc,             \* editor.doc
    dom,             \* root's top-level children
    nodeRanges,      \* the position-range index of root
    pc,              \* position inside render / renderChanges
    call,            \* the call in progress or last finished
    log,             \* what the call has done so far, in order
    \* ---- inline composer
    ops,             \* delta.ops
    opi,             \* index of the next operation
    activeStack,
    inlineChildren,
    trailingBreak,
    ipc

gvars == <<pool, arrays, linesCombined, linesMultiples, groups, results, gcall, firstRet>>
dvars == <<oldC, newC, ranges, dpc>>
rvars == <<doc, dom, nodeRanges, pc, call, log>>
ivars == <<ops, opi, activeStack, inlineChildren, trailingBreak, ipc>>
vars == <<gvars, dvars, rvars, ivars>>

\* ------------------------------------------------------------------ bounds
NumLines == 3      \* Line ids are 1..NumLines; a snapshot holds each at most once
MaxArrays == 3     \* Line-sequence objects created in SpecGroup
MaxUnits == 3      \* length of the unit sequences in SpecDiff
MaxOps == 3        \* operations of a content run in SpecInline

\* ------------------------------------------------------------ small helpers
Max(a, b) == IF a >= b THEN a ELSE b
Min(a, b) == IF a <= b THEN a ELSE b
Last(s) == s[Len(s)]

RECURSIVE Flatten(_)
Flatten(ss) == IF ss = <<>> THEN <<>> ELSE Head(ss) \o Flatten(Tail(ss))

\* All sequences over S of length <= n
RECURSIVE SeqsUpTo(_, _)
SeqsUpTo(S, n) ==
    IF n = 0 THEN {<<>>}
    ELSE LET shorter == SeqsUpTo(S, n - 1)
         IN shorter \cup {Append(s, x) : s \in {t \in shorter : Len(t) = n - 1},
                                         x \in S}

\* The elements of a set of numbers as an increasing sequence
RECURSIVE SortedSeq(_)
SortedSeq(S) ==
    IF S = {} THEN <<>>
    ELSE LET m == CHOOSE x \in S : \A y \in S : x <= y
         IN <<m>> \o SortedSeq(S \ {m})

\* ----------------------------------------------------------------- typeset
(* The typeset registry (typesetting/typeset) is pluggable and is not part *)
(* of rendering.ts. The model uses a sample registry with one line type    *)
(* per capability set the code distinguishes:                              *)
(*   para    render only                  -> standalone unit               *)
(*   list    shouldCombine, renderMultiple -> combined group               *)
(*   bad     shouldCombine, no renderMultiple -> group that cannot render  *)
(*   hidden  neither shouldCombine nor render -> dropped                   *)
(* shouldCombine(first, next) accepts equal values and any next with a     *)
(* positive value (an indented item): a predicate that is neither          *)
(* symmetric nor transitive, as a registry's predicate need not be.        *)
LineTypes == {"para", "list", "bad", "hidden"}
HasShouldCombine(t) == t \in {"list", "bad"}
HasRender(t) == t \in {"para"}
HasRenderMultiple(t) == t \in {"list"}
ShouldCombine(t, a, b) == a.v = b.v \/ b.v > 0

\* A Line: its id, its attributes (type tag and value v) and its length in
\* the document (content plus the newline). attributes are read as a whole.
Attributes(line) == [type |-> line.type, v |-> line.v]

\* getLineType: the line type the registry resolves for line.attributes
\* (cached per attributes object in linesType; the cache changes no result)
getLineType(line) == line.type

\* ------------------------------------------------------------ combineLines
(* A CombinedEntry is a Line or a Line[]:                                  *)
(*   [arr |-> FALSE, oid |-> 0,   lines |-> <<line>>]   the Line itself    *)
(*   [arr |-> TRUE,  oid |-> o,   lines |-> members]    the array object o *)
LineEntry(line) == [arr |-> FALSE, oid |-> 0, lines |-> <<line>>]
ArrayEntry(o, ls) == [arr |-> TRUE, oid |-> o, lines |-> ls]

LookupMultiple(lm, line) == IF line \in DOMAIN lm THEN lm[line] ELSE 0

\* line 153: the in-progress group closes at lines[i]
ClosesNoTypeCheck(lines, i, type, collect) ==
    \/ i = Len(lines)
    \/ ~ShouldCombine(type, Attributes(collect[1]), Attributes(lines[i + 1]))
ClosesOnPrevious(lines, i, type, collect) ==
    \/ i = Len(lines)
    \/ getLineType(lines[i + 1]) # type
    \/ ~ShouldCombine(type, Attributes(lines[i]), Attributes(lines[i + 1]))
Closes(lines, i, type, collect) ==
    \/ i = Len(lines)
    \/ getLineType(lines[i + 1]) # type
    \/ ~ShouldCombine(type, Attributes(collect[1]), Attributes(lines[i + 1]))

\* line 156: the previous group recorded for collect[0] has the same members
NeverReuse(last, heap, collect) == FALSE
ReuseIgnoringLength(last, heap, collect) ==
    /\ last # 0
    /\ Len(heap[last]) >= Len(collect)
    /\ \A k \in 1..Len(collect) : heap[last][k] = collect[k]
CanReuse(last, heap, collect) ==
    /\ last # 0
    /\ Len(heap[last]) = Len(collect)
    /\ \A k \in 1..Len(collect) : heap[last][k] = collect[k]

\* lines 147-169: the body of lines.forEach for lines[i]
\* st = [combined, byKey, collect, lm, heap]
CombineStep(lines, i, st) ==
    LET line == lines[i]
        type == getLineType(line)
    IN IF HasShouldCombine(type)
       THEN LET collect == Append(st.collect, line)
            IN IF Closes(lines, i, type, collect)
               THEN LET last == LookupMultiple(st.lm, collect[1])
                        reuse == CanReuse(last, st.heap, collect)
                        o == IF reuse THEN last ELSE Len(st.heap) + 1
                        \* line 157: collect = last
                        closed == IF reuse THEN st.heap[last] ELSE collect
                        e == ArrayEntry(o, closed)
                    IN [combined |-> Append(st.combined, e),
                        byKey |-> (closed[1].id :> e) @@ st.byKey,
                        collect |-> <<>>,
                        lm |-> IF reuse THEN st.lm ELSE (collect[1] :> o) @@ st.lm,
                        heap |-> IF reuse THEN st.heap ELSE Append(st.heap, collect)]
               ELSE [st EXCEPT !.collect = collect]
       ELSE IF HasRender(type)
       THEN [st EXCEPT !.combined = Append(st.combined, LineEntry(line)),
                       !.byKey = (line.id :> LineEntry(line)) @@ st.byKey]
       ELSE st

RECURSIVE CombineFrom(_, _, _)
CombineFrom(lines, i, st) ==
    IF i > Len(lines) THEN st
    ELSE CombineFrom(lines, i + 1, CombineStep(lines, i, st))

\* lines 143-171: the computation of combineLines on a cache miss
Combine(lines, lm, heap) ==
    CombineFrom(lines, 1, [combined |-> <<>>, byKey |-> <<>>, collect |-> <<>>,
                           lm |-> lm, heap |-> heap])

\* ------------------------------------------------------- getChangedRanges
\* lines 318-324: isSame. oldEntry === newEntry is identity: the same Line,
\* or the same array object (equal oid, hence equal members).
isSame(oldEntry, newEntry) ==
    \/ oldEntry = newEntry
    \/ /\ oldEntry.arr /\ newEntry.arr
       /\ Len(oldEntry.lines) = Len(newEntry.lines)
       /\ \A k \in 1..Len(oldEntry.lines) : oldEntry.lines[k] = newEntry.lines[k]

\* lines 182-187: the indexes i < minLength at which the front scan finds a
\* mismatch (0-based, as in the code)
FrontMismatches(o, n) ==
    {i \in 0..(Min(Len(o), Len(n)) - 1) : ~isSame(o[i + 1], n[i + 1])}
\* lines 188-194: the same for the scan from the back
BackMismatches(o, n) ==
    {i \in 0..(Min(Len(o), Len(n)) - 1) : ~isSame(o[Len(o) - i], n[Len(n) - i])}
Least(S) == CHOOSE x \in S : \A y \in S : x <= y

\* lines 177-196: [[oldStart, oldEnd], [newStart, newEnd]]; a scan that
\* finds no mismatch leaves its variables at their initial 0
getChangedRanges(o, n) ==
    LET front == FrontMismatches(o, n)
        back == BackMismatches(o, n)
        start == IF front = {} THEN 0 ELSE Least(front)
        oldEnd == IF back = {} THEN 0 ELSE Len(o) - Least(back)
        newEnd == IF back = {} THEN 0 ELSE Len(n) - Least(back)
    IN <<<<start, oldEnd>>, <<start, newEnd>>>>

\* -------------------------------------------------------------- rendering
(* An on-screen top-level node:                                            *)
(*   key    the key the renderer set (the first Line's id), 0 for none     *)
(*   multi  produced by renderMultiple: a container of line elements       *)
(*   lines  the Lines rendered into it; a container holds one line element *)
(*          per Line, keyed by the Line's id                               *)
ForeignNode == [key |-> 0, multi |-> FALSE, lines |-> <<>>]

\* lines 121-128: renderSingleLine; ok = FALSE stands for the thrown Error
renderSingleLine(line) ==
    IF ~HasRender(getLineType(line))
    THEN [ok |-> FALSE, node |-> ForeignNode]
    ELSE [ok |-> TRUE, node |-> [key |-> line.id, multi |-> FALSE, lines |-> <<line>>]]

\* lines 130-136: renderMultiLine
renderMultiLineNoCheck(lines) ==
    [ok |-> TRUE, node |-> [key |-> lines[1].id, multi |-> TRUE, lines |-> lines]]
renderMultiLine(lines) ==
    IF ~HasRenderMultiple(getLineType(lines[1]))
    THEN [ok |-> FALSE, node |-> ForeignNode]
    ELSE [ok |-> TRUE, node |-> [key |-> lines[1].id, multi |-> TRUE, lines |-> lines]]

\* lines 117-119: renderLine
renderLine(entry) ==
    IF entry.arr THEN renderMultiLine(entry.lines) ELSE renderSingleLine(entry.lines[1])

\* lines 113-115: renderCombined; it throws when one unit throws
renderCombined(combined) ==
    LET rendered == [k \in 1..Len(combined) |-> renderLine(combined[k])]
    IN [ok |-> \A k \in 1..Len(combined) : rendered[k].ok,
        nodes |-> [k \in 1..Len(combined) |-> rendered[k].node]]

\* combineLines as the reconciler reads it: the units and byKey. The
\* identity memos change no member of any unit, and isSame compares arrays
\* by their members, so the reconciler's results do not depend on them.
combineLines(lines) == Combine(lines, <<>>, <<>>)

\* lines 109-111: renderDoc
renderDoc(d) == renderCombined(combineLines(d).combined)

\* Array.prototype.slice(a, b) of a list of length n, as the half-open
\* 0-based index pair it selects (negative indexes count from the end)
JsSlice(n, a, b) ==
    LET from == IF a < 0 THEN Max(n + a, 0) ELSE Min(a, n)
        to == IF b < 0 THEN Max(n + b, 0) ELSE Min(b, n)
    IN IF from < to THEN <<from, to>> ELSE <<0, 0>>

\* The tree-patch primitive (./vdom): the children in the old slice are
\* replaced by the nodes of the new virtual nodes and every other child is
\* kept; with no old slice given, all children are replaced; with an empty
\* old slice the new nodes are appended.
patch(children, vnodes, slice) ==
    IF slice[1] < slice[2]
    THEN SubSeq(children, 1, slice[1]) \o vnodes \o SubSeq(children, slice[2] + 1, Len(children))
    ELSE children \o vnodes
patchAll(children, vnodes) == vnodes

\* TextDocument.getLineRange(line): [start, end) of a Line of d
getLineRange(d, k) ==
    LET start == IF k = 1 THEN 0
                 ELSE LET sums[j \in 0..(k - 1)] ==
                              IF j = 0 THEN 0 ELSE sums[j - 1] + d[j].len
                      IN sums[k - 1]
    IN <<start, start + d[k].len>>
\* TextDocument.getLineBy(key): the index of the Line with that id, 0 for none
getLineBy(d, key) ==
    IF \E k \in 1..Len(d) : d[k].id = key
    THEN CHOOSE k \in 1..Len(d) : d[k].id = key
    ELSE 0
NoRange == <<>>
\* what line 64 stores when getLineBy found no Line
UndefinedRange == <<"undefined">>
RangeOfKey(d, key) ==
    IF getLineBy(d, key) = 0 THEN UndefinedRange ELSE getLineRange(d, getLineBy(d, key))

\* lines 34-67: setLineNodesRanges. The index holds, for each top-level
\* child in order, its range (top) and the ranges of the line elements
\* inside it (inner).
TopRange(d, byKey, child) ==
    IF child.key # 0 /\ child.key \in DOMAIN byKey
    THEN LET entry == byKey[child.key]
         IN <<getLineRange(d, getLineBy(d, entry.lines[1].id))[1],
              getLineRange(d, getLineBy(d, Last(entry.lines).id))[2]>>
    ELSE IF child.key # 0 /\ ~child.multi
    THEN RangeOfKey(d, child.key)      \* lines 59-65: a line element not yet indexed
    ELSE NoRange
InnerRanges(d, child) ==
    IF child.multi
    THEN [k \in 1..Len(child.lines) |-> RangeOfKey(d, child.lines[k].id)]
    ELSE <<>>
setLineNodesRanges(children, d) ==
    LET byKey == combineLines(d).byKey
    IN [i \in 1..Len(children) |->
           [top |-> TopRange(d, byKey, children[i]),
            inner |-> InnerRanges(d, children[i])]]

\* lines 81-100 of renderChanges: the slices it takes
\* lines 88-97: the windows after the expansion and the drift correction
\* lines 88-92: the two windows, widened by one unit when they differ
ExpandedWindows(o, n, r) ==
    IF r[1] # r[2]
    THEN <<<<Max(0, r[1][1] - 1), Min(Len(o), r[1][2] + 1)>>,
           <<Max(0, r[2][1] - 1), Min(Len(n), r[2][2] + 1)>>>>
    ELSE r
\* lines 93-96 are inside the branch of line 88
ExpandedRanges(o, n, r, nChildren) ==
    LET w == ExpandedWindows(o, n, r)
    IN IF r[1] # r[2]
       THEN <<<<w[1][1],
                w[1][2] + (IF nChildren # Len(o) THEN nChildren - Len(o) ELSE 0)>>,
              w[2]>>
       ELSE r

\* line 101: both slices are empty
NeverFallsBack(oldSlice, newSlice) == FALSE
FallsBack(oldSlice, newSlice) ==
    oldSlice[1] >= oldSlice[2] /\ newSlice[1] >= newSlice[2]

\* ------------------------------------------------- SpecGroup: the grouper
LineIds == 1..NumLines
LineVariants(i) ==
    {[id |-> i, type |-> "para", v |-> 0, len |-> 1],
     [id |-> i, type |-> "hidden", v |-> 0, len |-> 1],
     [id |-> i, type |-> "bad", v |-> 0, len |-> 1]}
    \cup {[id |-> i, type |-> "list", v |-> w, len |-> 1] : w \in 0..1}

NoCall == [arg |-> 0, ret |-> 0, again |-> FALSE, lmBefore |-> <<>>, nResultsBefore |-> 0]

\* line 140-141: the memo of whole results
CacheMiss(lc, a) == 0
CacheLookup(lc, a) == lc[a]

InitGroupVars ==
    /\ pool \in {p \in [LineIds -> UNION {LineVariants(i) : i \in LineIds}] :
                     \A i \in LineIds : p[i].id = i}
    /\ arrays = <<>>
    /\ linesCombined = [a \in 1..MaxArrays |-> 0]
    /\ linesMultiples = <<>>
    /\ groups = <<>>
    /\ results = <<>>
    /\ gcall = NoCall
    /\ firstRet = [a \in 1..MaxArrays |-> 0]

IdleGroupVars ==
    /\ pool = <<>>
    /\ arrays = <<>>
    /\ linesCombined = <<>>
    /\ linesMultiples = <<>>
    /\ groups = <<>>
    /\ results = <<>>
    /\ gcall = NoCall
    /\ firstRet = <<>>

\* lines 139-174: combineLines(editor, arrs[a])
CombineLinesCall(a, arrs, again) ==
    LET cache == CacheLookup(linesCombined, a)
        r == Combine(arrs[a], linesMultiples, groups)
        data == [combined |-> r.combined, byKey |-> r.byKey]
        ret == IF cache # 0 THEN cache ELSE Len(results) + 1
    IN /\ Len(results) < 2 * MaxArrays
       /\ IF cache # 0
          THEN UNCHANGED <<linesCombined, linesMultiples, groups, results>>
          ELSE /\ results' = Append(results, data)
               /\ linesCombined' = [linesCombined EXCEPT ![a] = Len(results) + 1]
               /\ linesMultiples' = r.lm
               /\ groups' = r.heap
       /\ gcall' = [arg |-> a, ret |-> ret, again |-> again,
                    lmBefore |-> linesMultiples, nResultsBefore |-> Len(results)]
       /\ firstRet' = IF firstRet[a] = 0 THEN [firstRet EXCEPT ![a] = ret] ELSE firstRet

\* The caller publishes a snapshot (a new Line-sequence object holding some
\* of the existing Lines, in document order) and groups it. Array
\* identities are numbered in the order of their first call.
CombineNew(S) ==
    LET lines == [k \in 1..Cardinality(S) |-> pool[SortedSeq(S)[k]]]
    IN /\ Len(arrays) < MaxArrays
       /\ arrays' = Append(arrays, lines)
       /\ CombineLinesCall(Len(arrays) + 1, Append(arrays, lines), FALSE)
       /\ UNCHANGED pool

\* combineLines is called again with a Line-sequence object passed before
CombineAgain(a) ==
    /\ a \in 1..Len(arrays)
    /\ CombineLinesCall(a, arrays, TRUE)
    /\ UNCHANGED <<pool, arrays>>

InitDiffIdle == oldC = <<>> /\ newC = <<>> /\ ranges = <<>> /\ dpc = "off"
InitRenderIdle ==
    /\ doc = <<>> /\ dom = <<>> /\ nodeRanges = <<>>
    /\ pc = "off" /\ call = <<>> /\ log = <<>>
InitInlineIdle ==
    /\ ops = <<>> /\ opi = 0 /\ activeStack = <<>> /\ inlineChildren = <<>>
    /\ trailingBreak = TRUE /\ ipc = "off"

InitGroup == InitGroupVars /\ InitDiffIdle /\ InitRenderIdle /\ InitInlineIdle
NextGroup ==
    /\ \/ \E S \in SUBSET LineIds : CombineNew(S)
       \/ \E a \in 1..MaxArrays : CombineAgain(a)
    /\ UNCHANGED <<dvars, rvars, ivars>>
SpecGroup == InitGroup /\ [][NextGroup]_vars

\* ----------------------------------------------------- grouper: the claims
Called == gcall.arg # 0
LastLines == arrays[gcall.arg]
LastResult == results[gcall.ret]
IsEligible(line) == HasShouldCombine(getLineType(line)) \/ HasRender(getLineType(line))
Members(combined) == Flatten([k \in 1..Len(combined) |-> combined[k].lines])
PosIn(lines, line) == CHOOSE k \in 1..Len(lines) : lines[k] = line
ResultOf(a) == results[linesCombined[a]]

\* C2: for every Line sequence combineLines was given, the member Lines of
\* the returned units, concatenated in order, are the sequence with exactly
\* the Lines removed whose type has neither shouldCombine nor render.
C2_GroupingIsPartition ==
    \A a \in 1..Len(arrays) :
        linesCombined[a] # 0 =>
            Members(ResultOf(a).combined) = SelectSeq(arrays[a], IsEligible)

\* C2 witness: a three-line snapshot was grouped into two units and one
\* Line was left out.
C2_Witness ==
    /\ Called
    /\ Len(LastLines) = NumLines
    /\ Len(LastResult.combined) = 2
    /\ Len(Members(LastResult.combined)) = NumLines - 1

\* C4: when a computing call closes a group whose members are the members
\* of the group recorded before the call for the same leading Line, the
\* entry in the result is that recorded array object.
C4_GroupIdentityReuse ==
    (Called /\ ~gcall.again) =>
        \A k \in 1..Len(LastResult.combined) :
            LET e == LastResult.combined[k]
                last == LookupMultiple(gcall.lmBefore, e.lines[1])
            IN (e.arr /\ last # 0 /\ groups[last] = e.lines) => e.oid = last

\* C4 witness: the third snapshot's call found a group recorded by an
\* earlier call and placed that object in its result.
C4_Witness ==
    /\ Called /\ ~gcall.again /\ gcall.arg = MaxArrays
    /\ \E k \in 1..Len(LastResult.combined) :
          LET e == LastResult.combined[k]
          IN /\ e.arr /\ Len(e.lines) >= 2
             /\ LookupMultiple(gcall.lmBefore, e.lines[1]) = e.oid

\* C5: a Line-sequence object passed before gets the result object its
\* first call returned, and the repeated call computes nothing: it
\* allocates no result and records no group.
C5_Memoized ==
    /\ \A a \in 1..Len(arrays) : firstRet[a] # 0 => linesCombined[a] = firstRet[a]
    /\ (Called /\ gcall.again) =>
          /\ gcall.ret = firstRet[gcall.arg]
          /\ Len(results) = gcall.nResultsBefore
          /\ linesMultiples = gcall.lmBefore

\* C5 witness: a snapshot was grouped again after later snapshots had
\* been grouped.
C5_Witness ==
    /\ Called /\ gcall.again
    /\ gcall.arg = 1 /\ Len(results) = MaxArrays
    /\ Len(LastResult.combined) >= 1

\* The closing condition of line 153 for a group that began at lines[p],
\* looked at from its member lines[j]
ClosesAt(lines, p, j) ==
    \/ j = Len(lines)
    \/ getLineType(lines[j + 1]) # getLineType(lines[p])
    \/ ~ShouldCombine(getLineType(lines[p]), Attributes(lines[p]), Attributes(lines[j + 1]))

UnitFollowsRule(lines, data, k) ==
    LET u == data.combined[k]
        p == PosIn(lines, u.lines[1])
        q == p + Len(u.lines) - 1
    IN /\ q <= Len(lines) /\ u.lines = SubSeq(lines, p, q)
       /\ u.lines[1].id \in DOMAIN data.byKey /\ data.byKey[u.lines[1].id] = u
       /\ IF u.arr
          THEN /\ HasShouldCombine(getLineType(lines[p]))
               /\ \A j \in p..(q - 1) : ~ClosesAt(lines, p, j)
               /\ ClosesAt(lines, p, q)
          ELSE /\ ~HasShouldCombine(getLineType(lines[p]))
               /\ HasRender(getLineType(lines[p]))
               /\ q = p

IsScenario(lines) ==
    /\ Len(lines) = 3
    /\ lines[1].type = "list" /\ lines[2].type = "list" /\ lines[1].v = lines[2].v
    /\ lines[3].type = "para"

\* C6: every unit of a result is a run of consecutive Lines; a group began
\* at a Line whose type has shouldCombine, did not close at any member but
\* its last, and closed at its last: no next Line, a next Line of another
\* type, or shouldCombine(first member, next) rejecting; a standalone unit
\* is a Line whose type has render and no shouldCombine; byKey holds each
\* unit under its first Line's id and nothing else. Two equal list lines
\* followed by a paragraph give [[a, b], c] with keys a and c.
C6_GroupFormationRule ==
    \A a \in 1..Len(arrays) :
        linesCombined[a] # 0 =>
            LET data == ResultOf(a)
                lines == arrays[a]
            IN /\ \A k \in 1..Len(data.combined) : UnitFollowsRule(lines, data, k)
               /\ DOMAIN data.byKey = {data.combined[k].lines[1].id : k \in 1..Len(data.combined)}
               /\ IsScenario(lines) =>
                     /\ Len(data.combined) = 2
                     /\ data.combined[1].arr /\ data.combined[1].lines = <<lines[1], lines[2]>>
                     /\ ~data.combined[2].arr /\ data.combined[2].lines = <<lines[3]>>
                     /\ DOMAIN data.byKey = {lines[1].id, lines[3].id}

\* C6 witness: the scenario's snapshot has been grouped.
C6_Witness ==
    /\ Called /\ IsScenario(LastLines)
    /\ Len(LastResult.combined) = 2

\* C7 as stated: every two adjacent members of a group have the same type
\* and are accepted by shouldCombine(p, q).
C7_AdjacentPairsCompatible ==
    \A a \in 1..Len(arrays) :
        linesCombined[a] # 0 =>
            \A k \in 1..Len(ResultOf(a).combined) :
                LET u == ResultOf(a).combined[k]
                IN u.arr =>
                    \A j \in 1..(Len(u.lines) - 1) :
                        /\ getLineType(u.lines[j]) = getLineType(u.lines[j + 1])
                        /\ ShouldCombine(getLineType(u.lines[j]), Attributes(u.lines[j]),
                                         Attributes(u.lines[j + 1]))

\* C7 amended: every member of a group after the first has the type of the
\* first member and is accepted by shouldCombine(first, member); the Line
\* that follows the group in the snapshot, if any, has another type or is
\* rejected by shouldCombine(first, it).
C7_MembersCompatibleWithFirst ==
    \A a \in 1..Len(arrays) :
        linesCombined[a] # 0 =>
            \A k \in 1..Len(ResultOf(a).combined) :
                LET u == ResultOf(a).combined[k]
                    lines == arrays[a]
                    q == PosIn(lines, Last(u.lines))
                IN u.arr =>
                    /\ \A j \in 2..Len(u.lines) :
                          /\ getLineType(u.lines[j]) = getLineType(u.lines[1])
                          /\ ShouldCombine(getLineType(u.lines[1]), Attributes(u.lines[1]),
                                           Attributes(u.lines[j]))
                    /\ q < Len(lines) =>
                          \/ getLineType(lines[q + 1]) # getLineType(u.lines[1])
                          \/ ~ShouldCombine(getLineType(u.lines[1]), Attributes(u.lines[1]),
                                            Attributes(lines[q + 1]))

\* C7 witness: a group of three whose second and third members
\* shouldCombine rejects as a pair.
C7_Witness ==
    /\ Called
    /\ \E k \in 1..Len(LastResult.combined) :
          LET u == LastResult.combined[k]
          IN /\ u.arr /\ Len(u.lines) = 3
             /\ ~ShouldCombine(getLineType(u.lines[2]), Attributes(u.lines[2]),
                               Attributes(u.lines[3]))

\* ------------------------------------------------- Spec: the reconciler
\* The Lines a snapshot of the editor may hold: under every id a paragraph
\* and a list item (two or three characters long: an edit of the item gives
\* a new Line under the same id); under id 1 also a line of the combinable
\* type that has no renderMultiple, under id 2 a line no renderer applies
\* to. Snapshots hold the ids in any order.
DocLines ==
    {[id |-> i, type |-> "para", v |-> 0, len |-> 1] : i \in LineIds}
    \cup {[id |-> i, type |-> "list", v |-> 0, len |-> n] : i \in LineIds, n \in 2..3}
    \cup {[id |-> 1, type |-> "bad", v |-> 0, len |-> 1],
          [id |-> 2, type |-> "hidden", v |-> 0, len |-> 1]}
\* A snapshot: Lines with distinct ids
Docs ==
    {d \in SeqsUpTo(DocLines, NumLines) :
        \A j, k \in 1..Len(d) : j # k => d[j].id # d[k].id}

NoRenderCall ==
    [op |-> "none", fellBack |-> FALSE, inSync |-> FALSE,
     oldSlice |-> <<0, 0>>, newSlice |-> <<0, 0>>,
     thrown |-> FALSE, done |-> FALSE, domBefore |-> <<>>, rangesBefore |-> <<>>,
     oldWindow |-> <<0, 0>>, drift |-> 0, nodeRemoved |-> FALSE]

\* The snapshots one change of the document leads to from d: the Lines
\* i+1..j are removed and at most one Line (new, or an edited Line under
\* the id of a removed one) is put in their place; or two neighbouring
\* Lines change places.
Splice(d, i, j, r) == SubSeq(d, 1, i) \o r \o SubSeq(d, j + 1, Len(d))
SwapAt(d, i) == [k \in 1..Len(d) |-> IF k = i THEN d[i + 1] ELSE IF k = i + 1 THEN d[i] ELSE d[k]]
ChangesOf(d) ==
    {e \in {Splice(d, i, j, r) : i \in 0..Len(d), j \in 0..Len(d),
                                 r \in {<<>>} \cup {<<l>> : l \in DocLines}} : e \in Docs}
    \cup {SwapAt(d, i) : i \in 1..(Len(d) - 1)}
ChangedDocs == [d \in Docs |-> ChangesOf(d)]

\* combineLines and renderDoc of every snapshot, evaluated once
CombinedOf == [d \in Docs |-> combineLines(d)]
RenderedOf == [d \in Docs |-> renderDoc(d)]

\* the on-screen tree is what rendering snapshot d produces
InSyncWith(children, d) == RenderedOf[d].ok /\ children = RenderedOf[d].nodes
\* the on-screen tree is what rendering snapshot d produces, less one node
WithoutNode(children, i) == SubSeq(children, 1, i - 1) \o SubSeq(children, i + 1, Len(children))
OneNodeRemoved(children, d) ==
    /\ RenderedOf[d].ok
    /\ \E i \in 1..Len(RenderedOf[d].nodes) : children = WithoutNode(RenderedOf[d].nodes, i)

InitRenderVars ==
    /\ doc \in Docs
    /\ dom = <<>>
    /\ nodeRanges = <<>>
    /\ pc = "idle"
    /\ call = NoRenderCall
    /\ log = <<>>

\* lines 70-71: the editor calls render(editor, editor.doc)
RenderCall ==
    /\ pc = "idle"
    /\ call' = [NoRenderCall EXCEPT !.op = "render", !.inSync = InSyncWith(dom, doc),
                                    !.domBefore = dom, !.rangesBefore = nodeRanges]
    /\ log' = <<>>
    /\ pc' = "r_rendering"
    /\ UNCHANGED <<doc, dom, nodeRanges>>

\* lines 101-102: the events renderChanges has dispatched when it hands the
\* work over to render: the test of the two slices comes before the first
\* dispatchEvent, so none
RenderingBeforeFallback == <<"rendering">>
EventsBeforeFallback == <<>>

\* lines 80-101: the document changed from doc to newDoc; the editor has set
\* editor.doc and calls renderChanges(editor, doc, newDoc)
RenderChangesCall(newDoc) ==
    LET oldCombined == CombinedOf[doc].combined
        newCombined == CombinedOf[newDoc].combined
        w == ExpandedWindows(oldCombined, newCombined,
                             getChangedRanges(oldCombined, newCombined))
        r == ExpandedRanges(oldCombined, newCombined,
                            getChangedRanges(oldCombined, newCombined), Len(dom))
        oldSlice == JsSlice(Len(dom), r[1][1], r[1][2])
        newSlice == JsSlice(Len(newCombined), r[2][1], r[2][2])
        fallsBack == FallsBack(oldSlice, newSlice)
    IN /\ pc = "idle"
       /\ doc' = newDoc
       /\ call' = [NoRenderCall EXCEPT !.op = "renderChanges", !.fellBack = fallsBack,
                                       !.inSync = InSyncWith(dom, doc),
                                       !.oldSlice = oldSlice, !.newSlice = newSlice,
                                       !.domBefore = dom, !.rangesBefore = nodeRanges,
                                       !.oldWindow = w[1],
                                       !.drift = Len(dom) - Len(oldCombined),
                                       !.nodeRemoved = OneNodeRemoved(dom, doc)]
       /\ log' = IF fallsBack THEN EventsBeforeFallback ELSE <<>>
       /\ pc' = IF fallsBack THEN "r_rendering" ELSE "rc_rendering"
       /\ UNCHANGED <<dom, nodeRanges>>

\* line 72 / line 102: editor.dispatchEvent(new Event('rendering'))
DispatchRendering ==
    /\ pc \in {"r_rendering", "rc_rendering"}
    /\ log' = Append(log, "rendering")
    /\ pc' = IF pc = "r_rendering" THEN "r_patch" ELSE "rc_patch"
    /\ UNCHANGED <<doc, dom, nodeRanges, call>>

\* line 73 / line 103: the argument renderDoc(...) / renderCombined(...) is
\* evaluated before patch is called, so when a unit throws patch has not
\* run and the children are the ones the call found
PatchedUnitByUnit(children, nodes) == children \o SelectSeq(nodes, LAMBDA n : n # ForeignNode)
ChildrenOnThrow(children, nodes) == children

\* line 73: patch(root, renderDoc(editor, doc)); renderDoc may throw
PatchAll ==
    /\ pc = "r_patch"
    /\ LET r == RenderedOf[doc]
       IN IF r.ok
          THEN /\ dom' = patchAll(dom, r.nodes)
               /\ log' = Append(log, "patch")
               /\ pc' = "ranges"
               /\ UNCHANGED call
          ELSE /\ dom' = ChildrenOnThrow(dom, r.nodes)
               /\ pc' = "thrown"
               /\ call' = [call EXCEPT !.thrown = TRUE]
               /\ UNCHANGED log
    /\ UNCHANGED <<doc, nodeRanges>>

\* line 103: patch(root, renderCombined(editor, newSlice), oldSlice)
PatchSlice ==
    /\ pc = "rc_patch"
    /\ LET newCombined == CombinedOf[doc].combined
           r == renderCombined(SubSeq(newCombined, call.newSlice[1] + 1, call.newSlice[2]))
       IN IF r.ok
          THEN /\ dom' = patch(dom, r.nodes, call.oldSlice)
               /\ log' = Append(log, "patch")
               /\ pc' = "ranges"
               /\ UNCHANGED call
          ELSE /\ dom' = ChildrenOnThrow(dom, r.nodes)
               /\ pc' = "thrown"
               /\ call' = [call EXCEPT !.thrown = TRUE]
               /\ UNCHANGED log
    /\ UNCHANGED <<doc, nodeRanges>>

\* line 74 / line 104: setLineNodesRanges(editor)
SetLineNodesRanges ==
    /\ pc = "ranges"
    /\ nodeRanges' = setLineNodesRanges(dom, doc)
    /\ log' = Append(log, "ranges")
    /\ pc' = "render"
    /\ UNCHANGED <<doc, dom, call>>

\* line 75 / line 105: editor.dispatchEvent(new Event('render'))
DispatchRender ==
    /\ pc = "render"
    /\ log' = Append(log, "render")
    /\ pc' = "rendered"
    /\ UNCHANGED <<doc, dom, nodeRanges, call>>

\* line 76 / line 106: editor.dispatchEvent(new Event('rendered')), return
DispatchRendered ==
    /\ pc = "rendered"
    /\ log' = Append(log, "rendered")
    /\ pc' = "returned"
    /\ call' = [call EXCEPT !.done = TRUE]
    /\ UNCHANGED <<doc, dom, nodeRanges>>

\* The call has returned; the caller goes on. (A call that threw has
\* handed the Error to its caller: pc stays "thrown".)
Return ==
    /\ pc = "returned"
    /\ pc' = "idle"
    /\ call' = NoRenderCall
    /\ log' = <<>>
    /\ UNCHANGED <<doc, dom, nodeRanges>>

\* Out-of-band mutations of the on-screen tree between two calls: a node
\* the renderer did not produce is appended to a rendered tree, or one
\* top-level node is removed from it.
DomAppended ==
    /\ pc = "idle"
    /\ InSyncWith(dom, doc)
    /\ dom' = Append(dom, ForeignNode)
    /\ nodeRanges' = Append(nodeRanges, [top |-> NoRange, inner |-> <<>>])
    /\ UNCHANGED <<doc, pc, call, log>>
DomRemoved ==
    /\ pc = "idle"
    /\ InSyncWith(dom, doc)
    /\ \E i \in 1..Len(dom) :
          /\ dom' = WithoutNode(dom, i)
          /\ nodeRanges' = WithoutNode(nodeRanges, i)
    /\ UNCHANGED <<doc, pc, call, log>>

InitRender == IdleGroupVars /\ InitDiffIdle /\ InitRenderVars /\ InitInlineIdle
Next ==
    /\ \/ RenderCall
       \/ \E d \in ChangedDocs[doc] : RenderChangesCall(d)
       \/ DomAppended
       \/ DomRemoved
       \/ DispatchRendering
       \/ PatchAll
       \/ PatchSlice
       \/ SetLineNodesRanges
       \/ DispatchRender
       \/ DispatchRendered
       \/ Return
    /\ UNCHANGED <<gvars, dvars, ivars>>
Spec == InitRender /\ [][Next]_vars

\* C1: a renderChanges that started with the on-screen tree being the
\* rendering of the old snapshot ends with the top-level nodes and the
\* position-range index that a full render of the new snapshot on an
\* emptied tree produces.
C1_IncrementalEqualsFull ==
    (pc = "returned" /\ call.op = "renderChanges" /\ call.inSync) =>
        /\ RenderedOf[doc].ok
        /\ dom = patchAll(<<>>, RenderedOf[doc].nodes)
        /\ nodeRanges = setLineNodesRanges(patchAll(<<>>, RenderedOf[doc].nodes), doc)

\* C1 witness: an incremental render that patched a slice in the middle:
\* the first and the last node were left in place and the tree has changed.
C1_Witness ==
    /\ pc = "returned" /\ call.op = "renderChanges" /\ call.inSync
    /\ ~call.fellBack
    /\ call.oldSlice[1] >= 1 /\ call.oldSlice[2] < Len(call.domBefore)
    /\ dom # call.domBefore

\* C8: a completed render or renderChanges has emitted 'rendering', then
\* patched, then rebuilt the index, then emitted 'render' and 'rendered':
\* each signal once, also when renderChanges fell back to render.
C8_LifecycleSignalOrder ==
    pc = "returned" =>
        log = <<"rendering", "patch", "ranges", "render", "rendered">>

\* C8 witness: a renderChanges that fell back to a full render has completed.
C8_Witness ==
    /\ pc = "returned" /\ call.op = "renderChanges" /\ call.fellBack
    /\ dom # <<>>

\* The units of the snapshot being rendered, and the render function a
\* unit needs: renderMultiple for a group, render for a standalone Line
UnitsOf(d) == CombinedOf[d].combined
LacksNeeded(unit) ==
    IF unit.arr THEN ~HasRenderMultiple(getLineType(unit.lines[1]))
    ELSE ~HasRender(getLineType(unit.lines[1]))
InUnits(d, line) == \E k \in 1..Len(UnitsOf(d)) : \E j \in 1..Len(UnitsOf(d)[k].lines) :
                        UnitsOf(d)[k].lines[j] = line
\* the call rendered the whole snapshot (render, or renderChanges handing
\* over to it) and is past line 73
FullPatchDone == pc \in {"thrown", "ranges"} /\ (call.op = "render" \/ call.fellBack)

\* C12: rendering a snapshot raises exactly when a unit's type lacks the
\* render function the unit needs; and a Line whose type has no render
\* and no renderMultiple is in no unit.
C12_ErrorClassification ==
    FullPatchDone =>
        /\ call.thrown <=> \E k \in 1..Len(UnitsOf(doc)) : LacksNeeded(UnitsOf(doc)[k])
        /\ \A i \in 1..Len(doc) :
              (~HasRender(getLineType(doc[i])) /\ ~HasRenderMultiple(getLineType(doc[i])))
                  => ~InUnits(doc, doc[i])

\* C12 as the code has it: rendering a snapshot raises exactly when a
\* unit's type lacks the render function the unit needs; a Line whose type
\* has neither shouldCombine nor render is in no unit and does not raise;
\* without an error the tree holds one node per unit, in order.
C12_CombinableTypesFormUnits ==
    FullPatchDone =>
        /\ call.thrown <=> \E k \in 1..Len(UnitsOf(doc)) : LacksNeeded(UnitsOf(doc)[k])
        /\ \A i \in 1..Len(doc) :
              (~HasShouldCombine(getLineType(doc[i])) /\ ~HasRender(getLineType(doc[i])))
                  => ~InUnits(doc, doc[i])
        /\ (\A i \in 1..Len(doc) : ~HasShouldCombine(getLineType(doc[i]))) => ~call.thrown
        /\ ~call.thrown =>
              /\ Len(dom) = Len(UnitsOf(doc))
              /\ \A k \in 1..Len(dom) : dom[k].lines = UnitsOf(doc)[k].lines

\* C12 witness: a snapshot with a Line no renderer applies to, between two
\* paragraphs, has been rendered: two nodes, no error.
C12_Witness ==
    /\ pc = "ranges" /\ call.op = "render" /\ ~call.thrown
    /\ Len(doc) = 3 /\ getLineType(doc[2]) = "hidden"
    /\ getLineType(doc[1]) = "para" /\ getLineType(doc[3]) = "para"
    /\ Len(dom) = 2 /\ dom[1].key = doc[1].id /\ dom[2].key = doc[3].id

\* C16: in a renderChanges call that finds a number of top-level children
\* other than the old unit count, the on-screen slice is taken with the end
\* of the old window moved by the difference (checked on the calls whose
\* old window is not empty).
C16_DriftCorrection ==
    (call.op = "renderChanges" /\ call.drift # 0
        /\ call.oldWindow[1] < call.oldWindow[2]) =>
        call.oldSlice = JsSlice(Len(call.domBefore), call.oldWindow[1],
                                call.oldWindow[2] + call.drift)

\* the units of snapshot d whose first Line has the id key
UnitsKeyed(d, key) == {k \in 1..Len(UnitsOf(d)) : UnitsOf(d)[k].lines[1].id = key}
\* the top-level nodes whose key is the id of a unit's first Line
KeyedNodes == {i \in 1..Len(dom) : dom[i].key # 0 /\ UnitsKeyed(doc, dom[i].key) # {}}
\* [start of the unit's first Line, end of its last Line) in snapshot d
UnitRange(d, unit) ==
    <<getLineRange(d, getLineBy(d, unit.lines[1].id))[1],
      getLineRange(d, getLineBy(d, unit.lines[Len(unit.lines)].id))[2]>>

\* C17: after a completed render or renderChanges every top-level node
\* keyed by the first Line of a unit of the rendered snapshot is indexed
\* with that unit's range in that snapshot, and these ranges are in
\* increasing, non-overlapping order along the top-level nodes. Checked
\* on the renderChanges calls that started from the rendering of the old
\* snapshot with one node removed from the tree and that replaced a slice
\* of it that is not empty.
C17_PositionRangeIndex ==
    (pc = "returned" /\ call.op = "renderChanges" /\ call.nodeRemoved
        /\ ~call.fellBack /\ call.oldSlice[1] < call.oldSlice[2]) =>
        /\ Len(nodeRanges) = Len(dom)
        /\ \A i \in KeyedNodes : \A k \in UnitsKeyed(doc, dom[i].key) :
              nodeRanges[i].top = UnitRange(doc, UnitsOf(doc)[k])
        /\ \A i, j \in KeyedNodes :
              i < j => nodeRanges[i].top[2] <= nodeRanges[j].top[1]

\* the events of the call in the order they were dispatched
Signals == SelectSeq(log, LAMBDA e : e \in {"rendering", "render", "rendered"})

\* C18: when a call of render or renderChanges is over, by returning or by
\* throwing, every 'rendering' it dispatched has been followed by 'render'
\* and 'rendered'.
C18_SignalPairing ==
    (pc \in {"returned", "thrown"} /\ (\E k \in 1..Len(log) : log[k] = "rendering")) =>
        Signals = <<"rendering", "render", "rendered">>

\* C19: when render or renderChanges has thrown, the on-screen tree and the
\* position-range index are the ones the call found.
C19_NoPartialRender ==
    pc = "thrown" => (dom = call.domBefore /\ nodeRanges = call.rangesBefore)

\* C19 witness: a renderChanges on a tree with nodes has thrown on a slice
\* of two units or more whose first unit has the render function it needs.
C19_Witness ==
    /\ pc = "thrown" /\ call.op = "renderChanges" /\ ~call.fellBack
    /\ call.domBefore # <<>>
    /\ call.newSlice[2] - call.newSlice[1] >= 2
    /\ ~LacksNeeded(UnitsOf(doc)[call.newSlice[1] + 1])

\* ------------------------------------------------ SpecDiff: the range diff
\* The units the diff is applied to: three Lines, and two array objects
\* with the same two members (different objects, pairwise the same Lines).
DiffLine(i) == [id |-> i, type |-> "para", v |-> 0, len |-> 1]
DiffUnits ==
    {LineEntry(DiffLine(i)) : i \in 1..3}
    \cup {ArrayEntry(o, <<DiffLine(1), DiffLine(2)>>) : o \in 1..2}

InitDiffVars ==
    /\ oldC \in SeqsUpTo(DiffUnits, MaxUnits)
    /\ newC \in SeqsUpTo(DiffUnits, MaxUnits + 1)
    /\ ranges = <<>>
    /\ dpc = "call"

GetChangedRangesCall ==
    /\ dpc = "call"
    /\ ranges' = getChangedRanges(oldC, newC)
    /\ dpc' = "done"
    /\ UNCHANGED <<oldC, newC>>

InitDiff == IdleGroupVars /\ InitDiffVars /\ InitRenderIdle /\ InitInlineIdle
NextDiff == GetChangedRangesCall /\ UNCHANGED <<gvars, rvars, ivars>>
SpecDiff == InitDiff /\ [][NextDiff]_vars

IsAppend(o, n) == Len(n) = Len(o) + 1 /\ SubSeq(n, 1, Len(o)) = o

\* C3: identical sequences give two empty windows at index 0, and a
\* sequence of length n with one unit appended gives the old window
\* [n, n) and the new window [n, n+1).
C3_RangeDiffSymmetry ==
    dpc = "done" =>
        /\ newC = oldC => ranges = <<<<0, 0>>, <<0, 0>>>>
        /\ IsAppend(oldC, newC) =>
              ranges = <<<<Len(oldC), Len(oldC)>>, <<Len(oldC), Len(oldC) + 1>>>>

\* C3, the half the code satisfies: identical sequences give [0,0), [0,0)
C3_IdenticalGivesEmptyWindows ==
    (dpc = "done" /\ newC = oldC) => ranges = <<<<0, 0>>, <<0, 0>>>>

\* C3, what the code returns for an appended unit that differs from the
\* old last unit: the front scan finds no mismatch and leaves the start at
\* 0, so the windows are [0, n) and [0, n+1); appended to an empty
\* sequence, both scans are empty and the windows are [0,0), [0,0).
C3_AppendedUnitWindows ==
    (dpc = "done" /\ IsAppend(oldC, newC)) =>
        /\ (oldC # <<>> /\ ~isSame(Last(oldC), Last(newC))) =>
              ranges = <<<<0, Len(oldC)>>, <<0, Len(oldC) + 1>>>>
        /\ oldC = <<>> => ranges = <<<<0, 0>>, <<0, 0>>>>

\* C15: the windows start at the same index, the units before the start
\* are pairwise same, equally many units follow the two windows and those
\* are pairwise same.
C15_WindowsCoverDifferences ==
    dpc = "done" =>
        LET oS == ranges[1][1]  oE == ranges[1][2]
            nS == ranges[2][1]  nE == ranges[2][2]
        IN /\ oS = nS
           /\ \A k \in 1..oS : isSame(oldC[k], newC[k])
           /\ Len(oldC) - oE = Len(newC) - nE
           /\ \A k \in 1..(Len(oldC) - oE) : isSame(oldC[oE + k], newC[nE + k])

\* ------------------------------------------ renderInline: the composer
(* A VChild is a string or a VNode. Both are written as records of one     *)
(* shape; a string is a sequence of characters, of which the model tells   *)
(* apart a letter "x", the space " " and the no-break space "nbsp".        *)
TextChild(s) == [kind |-> "text", type |-> "", props |-> 0, text |-> s, children |-> <<>>]
NodeChild(t, p, c) == [kind |-> "node", type |-> t, props |-> p, text |-> <<>>, children |-> c]
\* line 8: const BR = h('br', {})
BR == NodeChild("br", 0, <<>>)

(* typeset.formats and typeset.embeds are not part of rendering.ts. The    *)
(* sample registry has the formats link (outermost) and bold, whose render *)
(* returns a node carrying the format's own attribute value as props, and  *)
(* a name "unk" that formats.get does not resolve; and the embeds image    *)
(* (fills the line), br, cursor (noFill) and "none", which                 *)
(* embeds.findByAttributes does not resolve.                               *)
FormatNames == {"link", "bold", "unk"}
FormatPriority(name) == CASE name = "link" -> 1 [] name = "bold" -> 2 [] OTHER -> 3
FormatHasRender(name) == name \in {"link", "bold"}
FormatRender(name, attributes, children) ==
    IF name = "bold" THEN NodeChild("strong", 0, children)
    ELSE NodeChild("a", attributes.link, children)
EmbedHasRender(name) == name \in {"image", "br", "cursor"}
EmbedNoFill(name) == name = "cursor"
EmbedRender(name) == NodeChild(name, 0, <<>>)

\* op.attributes: undefined, or a map; a value of 0 stands for an absent key
NoAttributes == [defined |-> FALSE, link |-> 0, bold |-> 0, unk |-> 0]
AttributeMap(l, b, u) == [defined |-> TRUE, link |-> l, bold |-> b, unk |-> u]
Keys(attributes) == {name \in FormatNames : attributes[name] # 0}

\* an optional child list (VChild[] | undefined)
Undefined == [def |-> FALSE, list |-> <<>>]
Some(l) == [def |-> TRUE, list |-> l]

\* lines 337-356
addOrMergeChild(list, newChild) ==
    IF Len(list) > 0
    THEN LET index == Len(list)
             last == list[index]
         IN IF /\ last.kind = "node" /\ newChild.kind = "node"
               /\ last.type = newChild.type /\ last.props = newChild.props
            THEN [list EXCEPT ![index].children = last.children \o newChild.children]
            ELSE IF last.kind = "text" /\ newChild.kind = "text"
            THEN [list EXCEPT ![index] = TextChild(last.text \o newChild.text)]
            ELSE Append(list, newChild)
    ELSE Append(list, newChild)

\* lines 365-367: for (const item of b) addOrMergeChild(a, item)
RECURSIVE MergeInto(_, _)
MergeInto(a, b) ==
    IF b = <<>> THEN a ELSE MergeInto(addOrMergeChild(a, Head(b)), Tail(b))

\* lines 359-369
combineChildren(a, b) ==
    IF ~a.def /\ ~b.def THEN <<>>
    ELSE IF ~a.def THEN b.list
    ELSE IF ~b.def THEN a.list
    ELSE MergeInto(a.list, b.list)

\* lines 219-230: the while loop of collapseStack. Every frame on the
\* stack has a render function (line 294 pushes no other), so the break of
\* line 221 is not taken; the sample formats' render returns a node.
RECURSIVE PopAndRender(_, _, _)
PopAndRender(stack, from, children) ==
    IF Len(stack) > from
    THEN LET item == stack[Len(stack)]
             combined == combineChildren(item.content, children)
             node == FormatRender(item.type, item.attributes, combined)
         IN PopAndRender(SubSeq(stack, 1, Len(stack) - 1), from, Some(<<node>>))
    ELSE [stack |-> stack, children |-> children]

\* lines 216-247; st holds activeStack and inlineChildren
collapseStack(st, from) ==
    LET r == PopAndRender(st.stack, from, Undefined)
    IN IF ~r.children.def THEN st
       ELSE IF Len(r.stack) = 0
       THEN [stack |-> r.stack, out |-> st.out \o r.children.list]
       ELSE LET n == Len(r.stack)
                last == r.stack[n]
            IN [stack |-> [r.stack EXCEPT ![n].content =
                              IF last.content.def
                              THEN Some(last.content.list \o r.children.list)
                              ELSE r.children],
                out |-> st.out]

\* lines 250-264; index counts from 0
insertStackItem(st, index, type, attributes) ==
    LET exists == index < Len(st.stack)
        active == st.stack[index + 1]
    IN IF exists /\ active.type = type
                 /\ active.attributes[active.type] = attributes[type]
       THEN st
       ELSE LET s1 == IF exists THEN collapseStack(st, index) ELSE st
            IN [s1 EXCEPT !.stack =
                   Append(s1.stack, [type |-> type, attributes |-> attributes,
                                     content |-> Undefined])]

\* line 289: Object.keys(op.attributes).sort by formats.priority
RECURSIVE SortByPriorityDescending(_)
SortByPriorityDescending(S) ==
    IF S = {} THEN <<>>
    ELSE LET m == CHOOSE x \in S : \A y \in S : FormatPriority(x) >= FormatPriority(y)
         IN <<m>> \o SortByPriorityDescending(S \ {m})
RECURSIVE SortByPriority(_)
SortByPriority(S) ==
    IF S = {} THEN <<>>
    ELSE LET m == CHOOSE x \in S : \A y \in S : FormatPriority(x) <= FormatPriority(y)
         IN <<m>> \o SortByPriority(S \ {m})

\* lines 291-297: sortedKeys.forEach
RECURSIVE InsertKeys(_, _, _, _)
InsertKeys(st, keys, stackIndex, attributes) ==
    IF keys = <<>> THEN st
    ELSE IF FormatHasRender(Head(keys))
    THEN InsertKeys(insertStackItem(st, stackIndex, Head(keys), attributes),
                    Tail(keys), stackIndex + 1, attributes)
    ELSE InsertKeys(st, Tail(keys), stackIndex, attributes)

\* String.replace(/  /g, rep): pairs of spaces, left to right
RECURSIVE ReplaceDoubleSpace(_, _)
ReplaceDoubleSpace(s, rep) ==
    IF Len(s) < 2 THEN s
    ELSE IF s[1] = " " /\ s[2] = " "
    THEN rep \o ReplaceDoubleSpace(SubSeq(s, 3, Len(s)), rep)
    ELSE <<s[1]>> \o ReplaceDoubleSpace(Tail(s), rep)

IsText(op) == op.insert.kind = "text"
\* lines 371-373
startsWithSpace(op) == IsText(op) /\ op.insert.text # <<>> /\ op.insert.text[1] = " "

\* lines 270-274: the string a text operation contributes
OpString(os, i) ==
    LET hasPrev == i > 1
        hasNext == i < Len(os)
        s0 == ReplaceDoubleSpace(ReplaceDoubleSpace(os[i].insert.text, <<"nbsp", " ">>),
                                 <<" ", "nbsp">>)
        s1 == IF (~hasPrev \/ ~IsText(os[i - 1])) /\ s0 # <<>> /\ s0[1] = " "
              THEN <<"nbsp">> \o Tail(s0) ELSE s0
        s2 == IF (~hasNext \/ ~IsText(os[i + 1]) \/ startsWithSpace(os[i + 1]))
                 /\ s1 # <<>> /\ s1[Len(s1)] = " "
              THEN SubSeq(s1, 1, Len(s1) - 1) \o <<"nbsp">> ELSE s1
    IN s2

\* lines 267-284: the children of one operation
OpChildren(os, i) ==
    IF IsText(os[i]) THEN <<TextChild(OpString(os, i))>>
    ELSE IF EmbedHasRender(os[i].insert.name) THEN <<EmbedRender(os[i].insert.name)>>
    ELSE <<>>

\* lines 275, 281-282
OpTrailingBreakNoFillFills(tb, op) ==
    IF IsText(op) THEN FALSE
    ELSE IF ~EmbedHasRender(op.insert.name) THEN tb
    ELSE op.insert.name = "br"
OpTrailingBreak(tb, op) ==
    IF IsText(op) THEN FALSE
    ELSE IF ~EmbedHasRender(op.insert.name) THEN tb
    ELSE IF op.insert.name = "br" THEN TRUE
    ELSE IF ~EmbedNoFill(op.insert.name) THEN FALSE
    ELSE tb

\* lines 286-307: where the operation's children go
PlaceChildren(st, op, children) ==
    IF op.attributes.defined
    THEN LET s1 == InsertKeys(st, SortByPriority(Keys(op.attributes)), 0, op.attributes)
             n == Len(s1.stack)
         IN IF n > 0
            THEN [s1 EXCEPT !.stack[n].content =
                     Some(combineChildren(s1.stack[n].content, Some(children)))]
            ELSE s1
    ELSE LET s1 == collapseStack(st, 0)
         IN [s1 EXCEPT !.out = combineChildren(Some(s1.out), Some(children))]

\* ---------------------------------------- SpecInline: one content run
TextInsert(s) == [kind |-> "text", text |-> s, name |-> ""]
EmbedInsert(n) == [kind |-> "embed", text |-> <<>>, name |-> n]
Inserts ==
    {TextInsert(<<"x">>), TextInsert(<<" ">>), TextInsert(<<" ", " ">>)}
    \cup {EmbedInsert(n) : n \in {"image", "br", "cursor", "none"}}
OpAttributes ==
    {NoAttributes, AttributeMap(0, 1, 0), AttributeMap(1, 0, 0), AttributeMap(2, 0, 0),
     AttributeMap(1, 1, 0), AttributeMap(0, 0, 1)}
InlineOps == {[insert |-> ins, attributes |-> a] : ins \in Inserts, a \in OpAttributes}

InitInlineVars ==
    /\ ops \in SeqsUpTo(InlineOps, MaxOps)
    /\ opi = 1
    /\ activeStack = <<>>
    /\ inlineChildren = <<>>
    /\ trailingBreak = TRUE
    /\ ipc = "loop"

\* lines 266-308: one turn of delta.ops.forEach
InlineOp ==
    /\ ipc = "loop"
    /\ opi <= Len(ops)
    /\ LET st == PlaceChildren([stack |-> activeStack, out |-> inlineChildren],
                               ops[opi], OpChildren(ops, opi))
       IN /\ activeStack' = st.stack
          /\ inlineChildren' = st.out
    /\ trailingBreak' = OpTrailingBreak(trailingBreak, ops[opi])
    /\ opi' = opi + 1
    /\ UNCHANGED <<ops, ipc>>

\* lines 310-314: the last collapse, the break placeholder, return
InlineFinish ==
    /\ ipc = "loop"
    /\ opi > Len(ops)
    /\ LET st == IF Len(activeStack) > 0
                 THEN collapseStack([stack |-> activeStack, out |-> inlineChildren], 0)
                 ELSE [stack |-> activeStack, out |-> inlineChildren]
       IN /\ activeStack' = st.stack
          /\ inlineChildren' = IF trailingBreak THEN Append(st.out, BR) ELSE st.out
    /\ ipc' = "done"
    /\ UNCHANGED <<ops, opi, trailingBreak>>

InitInline == IdleGroupVars /\ InitDiffIdle /\ InitRenderIdle /\ InitInlineVars
NextInline ==
    /\ \/ InlineOp
       \/ InlineFinish
    /\ UNCHANGED <<gvars, dvars, rvars>>
SpecInline == InitInline /\ [][NextInline]_vars

\* the renderable formats an operation names
Renderable(op) == {name \in Keys(op.attributes) : FormatHasRender(name)}

\* C9: a content run of one text operation naming renderable formats
\* comes back as one tree, the lowest-priority format (link) outermost,
\* the text innermost: {bold, link} gives link[bold[text]].
C9_InlineNesting ==
    (ipc = "done" /\ Len(ops) = 1 /\ IsText(ops[1]) /\ Renderable(ops[1]) # {}) =>
        LET a == ops[1].attributes
            text == TextChild(OpString(ops, 1))
            strong == NodeChild("strong", 0, <<text>>)
        IN /\ (a.link # 0 /\ a.bold # 0) =>
                  inlineChildren = <<NodeChild("a", a.link, <<strong>>)>>
           /\ (a.link # 0 /\ a.bold = 0) =>
                  inlineChildren = <<NodeChild("a", a.link, <<text>>)>>
           /\ (a.link = 0 /\ a.bold # 0) => inlineChildren = <<strong>>

\* C9 witness: the run {bold, link} "x" has been composed into link[bold["x"]]
C9_Witness ==
    /\ ipc = "done" /\ Len(ops) = 1 /\ IsText(ops[1])
    /\ ops[1].attributes.link = 1 /\ ops[1].attributes.bold = 1
    /\ inlineChildren =
          <<NodeChild("a", 1, <<NodeChild("strong", 0, <<TextChild(<<"x">>)>>)>>)>>

\* two neighbours addOrMergeChild would have merged
Mergeable(c1, c2) ==
    \/ c1.kind = "text" /\ c2.kind = "text"
    \/ c1.kind = "node" /\ c2.kind = "node" /\ c1.type = c2.type /\ c1.props = c2.props
RECURSIVE WellMerged(_)
WellMerged(list) ==
    /\ \A k \in 1..(Len(list) - 1) : ~Mergeable(list[k], list[k + 1])
    /\ \A k \in 1..Len(list) : WellMerged(list[k].children)
\* the returned children without the break placeholder of line 312
Composed == IF trailingBreak THEN SubSeq(inlineChildren, 1, Len(inlineChildren) - 1)
            ELSE inlineChildren

\* C10: in the returned tree (the break placeholder left aside) no child
\* list holds two adjacent texts or two adjacent nodes of the same type
\* and properties.
C10_SiblingMerge == ipc = "done" => WellMerged(Composed)

\* the operations that set the trailing-break flag: text, and a rendered
\* embed that is the hard break or fills the line
SetsFlag(op) ==
    \/ IsText(op)
    \/ /\ EmbedHasRender(op.insert.name)
       /\ (op.insert.name = "br" \/ ~EmbedNoFill(op.insert.name))
\* the run is empty or has no flag-setting operation, or its last
\* flag-setting operation is a hard-break embed
ExpectsBreak(os) ==
    LET S == {i \in 1..Len(os) : SetsFlag(os[i])}
    IN S = {} \/ (~IsText(os[CHOOSE i \in S : \A j \in S : j <= i])
                  /\ os[CHOOSE i \in S : \A j \in S : j <= i].insert.name = "br")
\* the top-level children when the last collapse of line 310 is done
BeforePlaceholder ==
    IF Len(activeStack) > 0
    THEN collapseStack([stack |-> activeStack, out |-> inlineChildren], 0).out
    ELSE inlineChildren

\* C11: when renderInline returns, the break placeholder has been appended
\* as the last top-level child if the run is empty, has only non-filling
\* embeds, or its last flag-setting operation is a hard break; otherwise
\* nothing has been appended.
C11_TrailingBreak ==
    [][(ipc = "loop" /\ ipc' = "done") =>
          inlineChildren' = BeforePlaceholder \o (IF ExpectsBreak(ops) THEN <<BR>> ELSE <<>>)]_vars

\* C11 witness: a run of a text and then only a non-filling embed has
\* returned without the placeholder, the text being its last child
C11_Witness ==
    /\ ipc = "done" /\ Len(ops) = 2
    /\ IsText(ops[1]) /\ ~IsText(ops[2]) /\ ops[2].insert.name = "cursor"
    /\ ~ops[1].attributes.defined /\ ~ops[2].attributes.defined
    /\ ~ExpectsBreak(ops)
    /\ inlineChildren = <<TextChild(OpString(ops, 1)), EmbedRender("cursor")>>

\* The content of a child list in document order: the characters of its
\* texts and the names of its embed nodes; a format node stands for the
\* content of its children.
RECURSIVE Leaves(_)
Leaves(list) ==
    IF list = <<>> THEN <<>>
    ELSE LET first == Head(list)
         IN (IF first.kind = "text" THEN first.text
             ELSE IF first.type \in {"strong", "a"} THEN Leaves(first.children)
             ELSE <<first.type>>)
            \o Leaves(Tail(list))
\* what the operations of the run produce, in operation order
OpContent(os, i) ==
    IF IsText(os[i]) THEN OpString(os, i)
    ELSE IF EmbedHasRender(os[i].insert.name) THEN <<os[i].insert.name>>
    ELSE <<>>
RECURSIVE Produced(_, _)
Produced(os, i) ==
    IF i > Len(os) THEN <<>> ELSE OpContent(os, i) \o Produced(os, i + 1)

\* C13: the tree renderInline returns (the break placeholder left aside)
\* holds the content of every operation once, in operation order.
C13_ContentNeverLost == ipc = "done" => Leaves(Composed) = Produced(ops, 1)

\* Every piece of content of a child list, in document order, with the
\* chain of format nodes that enclose it (outermost first)
RECURSIVE Wrapped(_, _)
Wrapped(list, chain) ==
    IF list = <<>> THEN <<>>
    ELSE LET first == Head(list)
         IN (IF first.kind = "text"
             THEN [k \in 1..Len(first.text) |-> [leaf |-> first.text[k], chain |-> chain]]
             ELSE IF first.type \in {"strong", "a"}
             THEN Wrapped(first.children,
                          Append(chain, [type |-> first.type, props |-> first.props]))
             ELSE <<[leaf |-> first.type, chain |-> chain]>>)
            \o Wrapped(Tail(list), chain)
\* the operation's own renderable formats with its own values, link
\* (priority 1) before bold (priority 2)
OwnChain(op) ==
    (IF op.attributes.link # 0 THEN <<[type |-> "a", props |-> op.attributes.link]>> ELSE <<>>)
    \o (IF op.attributes.bold # 0 THEN <<[type |-> "strong", props |-> 0]>> ELSE <<>>)
RECURSIVE ProducedWrapped(_, _)
ProducedWrapped(os, i) ==
    IF i > Len(os) THEN <<>>
    ELSE LET content == OpContent(os, i)
         IN [k \in 1..Len(content) |-> [leaf |-> content[k], chain |-> OwnChain(os[i])]]
            \o ProducedWrapped(os, i + 1)

\* C14: in the tree renderInline returns, the content of every operation
\* is enclosed by exactly the operation's own renderable formats, in
\* priority order (checked on the runs none of whose content is lost).
C14_ExactWrapping ==
    (ipc = "done" /\ Leaves(Composed) = Produced(ops, 1)) =>
        Wrapped(Composed, <<>>) = ProducedWrapped(ops, 1)

====
